---- MODULE Spec2Model ----
(***************************************************************************)
(* Model of the Genius API helper of src/apputil.py: the retry loop of     *)
(* Genius._get, the artist resolution of Genius.get_artist and the batch   *)
(* loop of Genius.get_artists.  The remote API is the environment: every   *)
(* HTTP request is answered by a response chosen from Responses(path).     *)
(***************************************************************************)
EXTENDS Integers, Sequences, FiniteSets, TLC

\* ------------------------------------------------------------------ bounds
MaxTerms == 2

Terms == {"adele", "zzz"}
\* the artist ids search hits carry, and those the API has a payload for
Ids == {7, 8}
KnownIds == {7}

\* ------------------------------------------------------- program constants
\* _get(..., retries=2, backoff=0.8); waits are counted in tenths of a second
retries == 2
backoff == 8

\* --------------------------------------------------------------- JSON data
\* A JSON value carries its Python type; the payload field is named after
\* the type.
JNull == [t |-> "null"]
JStr(s) == [t |-> "str", s |-> s]
JInt(n) == [t |-> "int", n |-> n]
JList(l) == [t |-> "list", l |-> l]
JDict(d) == [t |-> "dict", d |-> d]

EmptyDict == JDict([k \in {} |-> JNull])
EmptyList == JList(<<>>)

\* Python truthiness (the operand of `not x` and of `x or {}`)
Truthy(v) ==
    CASE v.t = "null" -> FALSE
      [] v.t = "str" -> v.s # ""
      [] v.t = "int" -> v.n # 0
      [] v.t = "list" -> v.l # <<>>
      [] v.t = "dict" -> DOMAIN v.d # {}

\* dict.get(key, default) on a value known to be a dict
DictGet(v, key, default) == IF key \in DOMAIN v.d THEN v.d[key] ELSE default

\* ------------------------------------------------------ results of a call
Unset == [kind |-> "unset"]
Return(v) == [kind |-> "return", value |-> v]
Raise(e) == [kind |-> "raise", exc |-> e]
RaiseFrom(e, c) == [kind |-> "raise", exc |-> e, cause |-> c]

\* classes caught by `except Exception`
Exceptions == {"ValueError", "RuntimeError", "AttributeError", "KeyError",
               "TypeError", "HTTPError", "ConnectionError", "JSONDecodeError"}

\* -------------------------------------------------------- the remote API
Malformed == [t |-> "malformed"]

NetworkError == [kind |-> "neterr"]
Http(status, body) == [kind |-> "http", status |-> status, body |-> body]

Envelope(r) == JDict([response |-> JDict(r)])
Hit(pa) == JDict([result |-> JDict([primary_artist |-> pa])])

SearchBodies ==
    { EmptyDict,
      JDict([response |-> JNull]),
      Envelope([hits |-> EmptyList]),
      Envelope([hits |-> JList(<<JDict([result |-> JNull])>>)]),
      Envelope([hits |-> JList(<<Hit(JDict([name |-> JStr("Adele")]))>>)]) }
    \cup { Envelope([hits |-> JList(<<Hit(JDict([id |-> JInt(i)]))>>)]) : i \in Ids }

ArtistKeys == {"name", "id", "followers_count"}

Catalog(i) == [name |-> JStr("Adele"), id |-> JInt(i), followers_count |-> JInt(5)]

ArtistObjects(i) ==
    { JDict([k \in S |-> Catalog(i)[k]]) : S \in SUBSET ArtistKeys }
    \cup { JDict([url |-> JStr("u")]) }

ArtistBodies(i) ==
    { Envelope([artist |-> a]) : a \in ArtistObjects(i) }
    \cup { EmptyDict, Envelope([artist |-> JList(<<JInt(1)>>)]) }

SearchPath(term) == [ep |-> "search", q |-> term, per_page |-> 1]
ArtistPath(id) == [ep |-> "artists", id |-> id]

Bodies(path) ==
    IF path.ep = "search" THEN SearchBodies
    ELSE IF path.id.t = "int" /\ path.id.n \in KnownIds THEN ArtistBodies(path.id.n)
    ELSE {EmptyDict}

Responses(path) ==
    {NetworkError}
    \cup { Http(429, Malformed), Http(500, Malformed), Http(200, Malformed) }
    \cup { Http(200, b) : b \in Bodies(path) }

\* --------------------------------------------------------------- state
VARIABLES
    call,          \* the entry point called: "get_artist" or "get_artists"
    search_terms,  \* the argument: the terms (one term for get_artist)
    idx,           \* get_artists: position of the for loop (next term)
    rows,          \* get_artists: rows
    pc,            \* "loop", "search" (in _search_hits), "artist", "done"
    path,          \* _get: the path and params of the GET
    attempt,       \* _get: the loop variable
    last_exc,      \* _get: last_exc
    trace,         \* _get: the requests made and sleeps slept by this GET
    get_out,       \* _get: Unset while looping, then what it returned/raised
    hits,          \* get_artist: hits
    artist_out,    \* what the last get_artist call returned or raised
    df,            \* what get_artists returned
    raised         \* the exception that left the entry point

vars == <<call, search_terms, idx, rows, pc, path, attempt, last_exc, trace,
          get_out, hits, artist_out, df, raised>>

NoExc == [type |-> "None"]
Exc(type, k) == [type |-> type, attempt |-> k]

Request(k, resp) == [ev |-> "request", attempt |-> k, resp |-> resp]
Sleep(k, secs) == [ev |-> "sleep", attempt |-> k, secs |-> secs]


\* ------------------------------------------------------------ Genius._get
\* for attempt in range(retries + 1)
range(n) == 0 .. (n - 1)
AttemptsOneShort == range(retries)
Attempts == range(retries + 1)

\* time.sleep(backoff * (attempt + 1))
SleepSecsFlat(k) == backoff
SleepSecs(k) == backoff * (k + 1)

\* resp.raise_for_status(): an HTTPError for a 4xx or 5xx status
RaisesForStatus(resp) == resp.status >= 400 /\ resp.status < 600

\* The body of the try of one iteration: "retry429" for the rate-limited
\* branch (sleep and continue), a Return for `return data`, a Raise for the
\* exception the except clause receives.
TryRequest(resp) ==
    IF resp.kind = "neterr" THEN Raise("ConnectionError")
    ELSE IF resp.status = 429 THEN [kind |-> "retry429"]
    ELSE IF RaisesForStatus(resp) THEN Raise("HTTPError")
    ELSE IF resp.body = Malformed THEN Raise("JSONDecodeError")
    ELSE Return(resp.body)

\* last_exc after the iteration: only the except clause assigns it
NextLastExcKeepsFirst(old, res, k) ==
    IF res.kind = "raise" /\ old = NoExc THEN Exc(res.exc, k) ELSE old
NextLastExc(old, res, k) == IF res.kind = "raise" THEN Exc(res.exc, k) ELSE old

\* the sleeps of the iteration: one in the 429 branch, one in the except clause
IterationSleeps(res, k) ==
    IF res.kind = "return" THEN <<>> ELSE <<Sleep(k, SleepSecs(k))>>

\* How the iteration leaves the loop: `return data` ends _get; otherwise the
\* loop goes on while attempts remain (Unset), and line 64 raises after the
\* last one.
LoopExitAfterLoop(res, exc, k) ==
    IF (k + 1) \in Attempts THEN Unset
    ELSE IF res.kind = "return" THEN res
    ELSE RaiseFrom("RuntimeError", exc)

LoopExit(res, exc, k) ==
    IF res.kind = "return" THEN res
    ELSE IF (k + 1) \in Attempts THEN Unset
    ELSE RaiseFrom("RuntimeError", exc)

\* _get is entered: url is built, last_exc = None, the loop starts
EnterGet(p) ==
    /\ path' = p
    /\ attempt' = 0
    /\ last_exc' = NoExc
    /\ trace' = <<>>
    /\ get_out' = Unset

\* One iteration of the loop of _get, answered by resp; the iteration that
\* ends the loop without a return is followed by the raise of line 64.
GetAttempt(resp) ==
    /\ get_out = Unset
    /\ attempt \in Attempts
    /\ LET res == TryRequest(resp)
           exc == NextLastExc(last_exc, res, attempt)
       IN /\ trace' = trace \o <<Request(attempt, resp)>> \o IterationSleeps(res, attempt)
          /\ last_exc' = exc
          /\ attempt' = attempt + 1
          /\ get_out' = LoopExit(res, exc, attempt)
    /\ UNCHANGED <<call, search_terms, idx, rows, pc, path, hits, artist_out, df, raised>>

RateLimited ==
    /\ pc \in {"search", "artist"}
    /\ \E resp \in Responses(path) :
           TryRequest(resp).kind = "retry429" /\ GetAttempt(resp)

Failed ==
    /\ pc \in {"search", "artist"}
    /\ \E resp \in Responses(path) :
           TryRequest(resp).kind = "raise" /\ GetAttempt(resp)

Succeeded ==
    /\ pc \in {"search", "artist"}
    /\ \E resp \in Responses(path) :
           TryRequest(resp).kind = "return" /\ GetAttempt(resp)

\* ----------------------------------------------------- Genius._search_hits
\* data.get("response", {}).get("hits", [])
SearchHits(data) ==
    IF data.t # "dict" THEN Raise("AttributeError")
    ELSE LET response == DictGet(data, "response", EmptyDict)
         IN IF response.t # "dict" THEN Raise("AttributeError")
            ELSE Return(DictGet(response, "hits", EmptyList))

\* ------------------------------------------------------- Genius.get_artist
\* hits[0]
FirstOf(h) ==
    CASE h.t = "list" -> Return(h.l[1])
      [] h.t = "str" -> Return(JStr("c"))
      [] h.t = "dict" -> Raise("KeyError")
      [] OTHER -> Raise("TypeError")

\* x.get(key, {}) or {}
GetOrEmpty(x, key) ==
    IF x.t # "dict" THEN Raise("AttributeError")
    ELSE LET v == DictGet(x, key, EmptyDict)
         IN Return(IF Truthy(v) THEN v ELSE EmptyDict)

\* lines 86-95 without the check of line 94
ArtistIdOfUnchecked(h) ==
    IF ~Truthy(h) THEN Raise("ValueError")
    ELSE LET first == FirstOf(h)
         IN IF first.kind = "raise" THEN first
            ELSE LET result == GetOrEmpty(first.value, "result")
                 IN IF result.kind = "raise" THEN result
                    ELSE LET primary_artist == GetOrEmpty(result.value, "primary_artist")
                         IN IF primary_artist.kind = "raise" THEN primary_artist
                            ELSE IF primary_artist.value.t # "dict" THEN Raise("AttributeError")
                            ELSE Return(DictGet(primary_artist.value, "id", JNull))

\* lines 86-95: the id of the first hit's primary artist, or the error raised
ArtistIdOf(h) ==
    IF ~Truthy(h) THEN Raise("ValueError")
    ELSE LET first == FirstOf(h)
         IN IF first.kind = "raise" THEN first
            ELSE LET result == GetOrEmpty(first.value, "result")
                 IN IF result.kind = "raise" THEN result
                    ELSE LET primary_artist == GetOrEmpty(result.value, "primary_artist")
                         IN IF primary_artist.kind = "raise" THEN primary_artist
                            ELSE IF primary_artist.value.t # "dict" THEN Raise("AttributeError")
                            ELSE LET artist_id == DictGet(primary_artist.value, "id", JNull)
                                 IN IF artist_id = JNull THEN Raise("ValueError")
                                    ELSE Return(artist_id)

\* lines 99-103: the artist object of the detail response, or the error raised
ArtistOf(artist_resp) ==
    IF artist_resp.t # "dict" THEN Raise("AttributeError")
    ELSE LET response == DictGet(artist_resp, "response", EmptyDict)
         IN IF response.t # "dict" THEN Raise("AttributeError")
            ELSE LET artist == DictGet(response, "artist", EmptyDict)
                 IN IF ~Truthy(artist) THEN Raise("RuntimeError")
                    ELSE Return(artist)

\* ------------------------------------------------------ Genius.get_artists
\* artist.get(key)
Field(artist, key) == DictGet(artist, key, JNull)

SuccessRowTypo(term, artist) ==
    [search_term |-> term,
     artist_name |-> Field(artist, "name"),
     artist_id |-> Field(artist, "id"),
     followers_count |-> Field(artist, "followers")]

SuccessRow(term, artist) ==
    [search_term |-> term,
     artist_name |-> Field(artist, "name"),
     artist_id |-> Field(artist, "id"),
     followers_count |-> Field(artist, "followers_count")]

NullRow(term) ==
    [search_term |-> term,
     artist_name |-> JNull,
     artist_id |-> JNull,
     followers_count |-> JNull]

\* except Exception
CatchesValueError(e) == e = "ValueError"
Catches(e) == e \in Exceptions

\* the try of lines 116-125 given what get_artist did: the row appended, or
\* the exception the except clause receives
TryRow(term, out) ==
    IF out.kind = "raise" THEN Raise(out.exc)
    ELSE IF out.value.t # "dict" THEN Raise("AttributeError")
    ELSE Return(SuccessRow(term, out.value))

DataFrameDropDuplicates(rs) ==
    LET keep == { i \in 1 .. Len(rs) : \A j \in 1 .. (i - 1) : rs[j] # rs[i] }
        pos(n) == CHOOSE i \in keep : Cardinality({ j \in keep : j < i }) = n - 1
    IN [columns |-> UNION { DOMAIN rs[i] : i \in 1 .. Len(rs) },
        rows |-> [n \in 1 .. Cardinality(keep) |-> rs[pos(n)]]]

\* pd.DataFrame(rows): the columns are the keys of the rows
DataFrame(rs) ==
    [columns |-> UNION { DOMAIN rs[i] : i \in 1 .. Len(rs) }, rows |-> rs]

\* get_artist ends with out: it is what the caller of get_artist gets, and in
\* get_artists the body of the for loop completes (lines 116-135).
EndArtist(out) ==
    /\ artist_out' = out
    /\ IF call = "get_artist"
       THEN /\ pc' = "done"
            /\ raised' = IF out.kind = "raise" THEN out ELSE Unset
            /\ UNCHANGED <<rows, idx>>
       ELSE LET term == search_terms[idx]
                row == TryRow(term, out)
            IN IF row.kind = "return"
               THEN /\ rows' = Append(rows, row.value)
                    /\ idx' = idx + 1
                    /\ pc' = "loop"
                    /\ UNCHANGED raised
               ELSE IF Catches(row.exc)
               THEN /\ rows' = Append(rows, NullRow(term))
                    /\ idx' = idx + 1
                    /\ pc' = "loop"
                    /\ UNCHANGED raised
               ELSE /\ raised' = row
                    /\ pc' = "done"
                    /\ UNCHANGED <<rows, idx>>

\* ----------------------------------------------------------------- actions
Init ==
    /\ call \in {"get_artist", "get_artists"}
    /\ search_terms \in UNION { [1 .. n -> Terms] : n \in 0 .. MaxTerms }
    /\ call = "get_artist" => Len(search_terms) = 1
    /\ idx = 1
    /\ rows = <<>>
    /\ pc = "loop"
    /\ path = Unset
    /\ attempt = 0
    /\ last_exc = NoExc
    /\ trace = <<>>
    /\ get_out = Unset
    /\ hits = Unset
    /\ artist_out = Unset
    /\ df = Unset
    /\ raised = Unset

\* get_artist(term) is called (by the user, or by the next iteration of the
\* for loop of get_artists); it calls _search_hits, which calls _get
StartTerm ==
    /\ pc = "loop"
    /\ idx <= Len(search_terms)
    /\ pc' = "search"
    /\ EnterGet(SearchPath(search_terms[idx]))
    /\ hits' = Unset
    /\ artist_out' = Unset
    /\ UNCHANGED <<call, search_terms, idx, rows, df, raised>>

\* the search GET is over: lines 73 and 85-98
AfterSearch ==
    /\ pc = "search"
    /\ get_out # Unset
    /\ LET h == IF get_out.kind = "raise" THEN Raise(get_out.exc)
                ELSE SearchHits(get_out.value)
       IN IF h.kind = "raise"
          THEN /\ EndArtist(IF get_out.kind = "raise" THEN get_out ELSE h)
               /\ UNCHANGED <<hits, path, attempt, last_exc, trace, get_out>>
          ELSE LET id == ArtistIdOf(h.value)
               IN /\ hits' = h.value
                  /\ IF id.kind = "raise"
                     THEN /\ EndArtist(id)
                          /\ UNCHANGED <<path, attempt, last_exc, trace, get_out>>
                     ELSE /\ pc' = "artist"
                          /\ EnterGet(ArtistPath(id.value))
                          /\ UNCHANGED <<rows, idx, artist_out, raised>>
    /\ UNCHANGED <<call, search_terms, df>>

\* the detail GET is over: lines 98-103
AfterDetail ==
    /\ pc = "artist"
    /\ get_out # Unset
    /\ EndArtist(IF get_out.kind = "raise" THEN get_out ELSE ArtistOf(get_out.value))
    /\ UNCHANGED <<call, search_terms, path, attempt, last_exc, trace, get_out, hits, df>>

\* the for loop of get_artists is over: line 136
Finish ==
    /\ call = "get_artists"
    /\ pc = "loop"
    /\ idx > Len(search_terms)
    /\ df' = DataFrame(rows)
    /\ pc' = "done"
    /\ UNCHANGED <<call, search_terms, idx, rows, path, attempt, last_exc, trace,
                   get_out, hits, artist_out, raised>>

Next ==
    \/ StartTerm
    \/ RateLimited
    \/ Failed
    \/ Succeeded
    \/ AfterSearch
    \/ AfterDetail
    \/ Finish

Spec == Init /\ [][Next]_vars

\* ------------------------------------------------- vocabulary of the claims
Batch == call = "get_artists"

\* get_artist is not running: before the first call, between two terms, after
TermEnded == pc \in {"loop", "done"}

RequestsOf(tr) == SelectSeq(tr, LAMBDA e : e.ev = "request")
SleepsOf(tr) == SelectSeq(tr, LAMBDA e : e.ev = "sleep")

\* a 2xx response whose body is well-formed JSON
IsSuccess(resp) ==
    /\ resp.kind = "http"
    /\ resp.status >= 200
    /\ resp.status < 300
    /\ resp.body # Malformed

IsRateLimit(resp) == resp.kind = "http" /\ resp.status = 429

NoSuccessIn(tr) == \A p \in 1 .. Len(tr) : tr[p].ev = "request" => ~IsSuccess(tr[p].resp)

AllNull(row) ==
    /\ row.artist_name = JNull
    /\ row.artist_id = JNull
    /\ row.followers_count = JNull

FourColumns == {"search_term", "artist_name", "artist_id", "followers_count"}

\* C1: get_artists never propagates an error: no exception leaves it, a term
\* whose resolution failed (get_artist raised, or returned something that is
\* not an artist object) has a row with the three result fields null, and the
\* batch ends only after the last term.
C1_NeverPropagates ==
    Batch =>
        /\ raised = Unset
        /\ Len(rows) >= idx - 1
        /\ (TermEnded /\ artist_out # Unset
              /\ (artist_out.kind = "raise" \/ artist_out.value.t # "dict"))
             => /\ rows[idx - 1].search_term = search_terms[idx - 1]
                /\ AllNull(rows[idx - 1])
        /\ pc = "done" => (idx = Len(search_terms) + 1 /\ df # Unset)

\* a batch of two terms whose first term failed and whose second was resolved
C1_Witness ==
    /\ Batch
    /\ pc = "done"
    /\ Len(search_terms) = 2
    /\ Len(rows) = 2
    /\ AllNull(rows[1])
    /\ rows[2].artist_id = JInt(7)

\* C2: get_artists produces one row per input term, in input order: after i
\* terms there are i rows, row i carries term i, and the table returned has
\* the rows of all n terms.
C2_OneRowPerTermInOrder ==
    Batch =>
        /\ Len(rows) = idx - 1
        /\ \A i \in 1 .. Len(rows) : rows[i].search_term = search_terms[i]
        /\ pc = "done" =>
              /\ df # Unset
              /\ Len(df.rows) = Len(search_terms)
              /\ \A i \in 1 .. Len(df.rows) : df.rows[i].search_term = search_terms[i]

\* a repeated term, both of whose resolutions failed
C2_Witness ==
    /\ Batch
    /\ pc = "done"
    /\ search_terms = <<"zzz", "zzz">>
    /\ df # Unset
    /\ Len(df.rows) = 2
    /\ df.rows[1] = df.rows[2]

\* C3 as stated: the table returned by get_artists has exactly the four
\* columns search_term, artist_name, artist_id, followers_count, for every
\* input sequence, the empty one included.
C3_FourColumnsAlways ==
    (Batch /\ pc = "done" /\ df # Unset) => df.columns = FourColumns

\* C4: a successful response ends the GET: _get returns the parsed body of
\* that response and makes no attempt after it, whatever 429 responses and
\* failures came before; and _get does not raise before the budget of
\* retries + 1 attempts is used up.
C4_SuccessIsReturned ==
    /\ \A p \in 1 .. Len(trace) :
          (trace[p].ev = "request" /\ IsSuccess(trace[p].resp)) =>
              /\ get_out = Return(trace[p].resp.body)
              /\ \A q \in (p + 1) .. Len(trace) : trace[q].ev # "request"
    /\ get_out.kind = "raise" => Len(RequestsOf(trace)) = retries + 1

\* a 429 followed by a success
C4_Witness ==
    /\ Len(RequestsOf(trace)) = 2
    /\ IsRateLimit(trace[1].resp)
    /\ get_out.kind = "return"

\* C5: a GET never makes more than retries + 1 attempts; while no attempt has
\* succeeded it goes on until exactly retries + 1 attempts are made and then
\* raises RuntimeError, and get_artist passes that error to its caller.
C5_RetryExhaustion ==
    /\ Len(RequestsOf(trace)) <= retries + 1
    /\ NoSuccessIn(trace) =>
          IF Len(RequestsOf(trace)) = retries + 1
          THEN get_out.kind = "raise" /\ get_out.exc = "RuntimeError"
          ELSE get_out = Unset
    /\ (TermEnded /\ get_out.kind = "raise") => artist_out = get_out
    /\ (call = "get_artist" /\ pc = "done" /\ get_out.kind = "raise") => raised = get_out

\* get_artist called directly, every attempt of its search answered 500
C5_Witness ==
    /\ call = "get_artist"
    /\ pc = "done"
    /\ path.ep = "search"
    /\ Len(RequestsOf(trace)) = 3
    /\ \A p \in 1 .. Len(trace) :
          trace[p].ev = "request" => trace[p].resp = Http(500, Malformed)
    /\ raised # Unset
    /\ raised.exc = "RuntimeError"

\* the attempts of the GET that ended in an exception (not in a 429 branch)
RaisingAttempts(tr) ==
    { tr[p].attempt : p \in { q \in 1 .. Len(tr) :
          tr[q].ev = "request" /\ ~IsRateLimit(tr[q].resp) /\ ~IsSuccess(tr[q].resp) } }

Highest(S) == CHOOSE k \in S : \A j \in S : j <= k

\* C6 as stated: the error of an exhausted GET has as its cause the failure of
\* the last attempt, 429 responses included.
C6_CauseIsLastAttempt ==
    get_out.kind = "raise" =>
        /\ get_out.cause # NoExc
        /\ get_out.cause.attempt = retries

\* C6 amended: the cause is the exception of the latest attempt that raised
\* one (network error, HTTP error status other than 429, malformed body); a
\* 429 response records nothing, and when every attempt was a 429 there is
\* no cause.
C6_CauseIsLastException ==
    get_out.kind = "raise" =>
        IF RaisingAttempts(trace) = {}
        THEN get_out.cause = NoExc
        ELSE /\ get_out.cause # NoExc
             /\ get_out.cause.attempt = Highest(RaisingAttempts(trace))

\* a network error, then a 500, then a 429: the cause is the 500 of attempt 1
C6_Witness ==
    /\ get_out.kind = "raise"
    /\ Len(RequestsOf(trace)) = 3
    /\ RequestsOf(trace)[1].resp = NetworkError
    /\ RequestsOf(trace)[2].resp = Http(500, Malformed)
    /\ IsRateLimit(RequestsOf(trace)[3].resp)
    /\ get_out.cause = Exc("HTTPError", 1)

\* the search found a first hit that carries a primary-artist id
FirstHitHasId(h) ==
    /\ h.t = "list"
    /\ Len(h.l) > 0
    /\ h.l[1].t = "dict"
    /\ "result" \in DOMAIN h.l[1].d
    /\ h.l[1].d["result"].t = "dict"
    /\ "primary_artist" \in DOMAIN h.l[1].d["result"].d
    /\ h.l[1].d["result"].d["primary_artist"].t = "dict"
    /\ "id" \in DOMAIN h.l[1].d["result"].d["primary_artist"].d
    /\ h.l[1].d["result"].d["primary_artist"].d["id"] # JNull

FirstHitId(h) == h.l[1].d["result"].d["primary_artist"].d["id"]

\* C7: a search with zero hits and a first hit without a primary-artist id
\* both make get_artist raise ValueError without a detail GET; a detail GET is
\* issued only after a search whose first hit has an id, and for that id.
C7_UniformNothingToResolve ==
    /\ (path # Unset /\ path.ep = "artists") =>
          /\ hits # Unset
          /\ FirstHitHasId(hits)
          /\ path.id = FirstHitId(hits)
    /\ (TermEnded /\ hits # Unset /\ ~FirstHitHasId(hits)) =>
          /\ artist_out = Raise("ValueError")
          /\ path.ep = "search"

\* the first hit has a primary artist without an id
C7_Witness ==
    /\ TermEnded
    /\ hits = JList(<<Hit(JDict([name |-> JStr("Adele")]))>>)
    /\ artist_out = Raise("ValueError")

\* the detail GET of the last get_artist call returned a response that has a
\* nested artist object
HasArtistObject ==
    /\ TermEnded
    /\ path # Unset
    /\ path.ep = "artists"
    /\ get_out.kind = "return"
    /\ get_out.value.t = "dict"
    /\ "response" \in DOMAIN get_out.value.d
    /\ get_out.value.d["response"].t = "dict"
    /\ "artist" \in DOMAIN get_out.value.d["response"].d
    /\ get_out.value.d["response"].d["artist"].t = "dict"

ArtistObject == get_out.value.d["response"].d["artist"]

\* the value of the key in the artist object, null when the key is missing
ValueOrNull(obj, key) == IF key \in DOMAIN obj.d THEN obj.d[key] ELSE JNull

\* get_artist returned the artist object, and get_artists made of it the row
\* of the term with the three values, null for a missing key
RecordMatches(obj) ==
    /\ artist_out = Return(obj)
    /\ Batch =>
          rows[idx - 1] = [search_term |-> search_terms[idx - 1],
                           artist_name |-> ValueOrNull(obj, "name"),
                           artist_id |-> ValueOrNull(obj, "id"),
                           followers_count |-> ValueOrNull(obj, "followers_count")]

\* C8 as stated: after a detail GET that succeeded, get_artist returns a
\* record with the values of the nested artist object, null for each missing
\* key, an empty artist object included.
C8_RecordForEveryArtistObject ==
    HasArtistObject => RecordMatches(ArtistObject)

\* C8 amended: that holds for every artist object that is not empty; an
\* empty artist object makes get_artist raise RuntimeError (and get_artists
\* emit the row with the three fields null).
C8_RecordForNonEmptyArtistObject ==
    HasArtistObject =>
        IF DOMAIN ArtistObject.d # {}
        THEN RecordMatches(ArtistObject)
        ELSE /\ artist_out = Raise("RuntimeError")
             /\ Batch => (rows[idx - 1].search_term = search_terms[idx - 1]
                          /\ AllNull(rows[idx - 1]))

\* an artist object with id and followers_count but no name, in a batch
C8_Witness ==
    /\ Batch
    /\ HasArtistObject
    /\ DOMAIN ArtistObject.d = {"id", "followers_count"}
    /\ rows[idx - 1].artist_name = JNull
    /\ rows[idx - 1].followers_count = JInt(5)

\* the number of requests among the first p events of the trace
RequestsUpTo(tr, p) == Cardinality({ q \in 1 .. p : tr[q].ev = "request" })

\* C9: within one GET the wait after the k-th attempt is k times backoff,
\* whether the attempt was rate-limited or failed, so every wait is longer
\* than the one before it; the first wait of every GET is the shortest one.
C9_BackoffIncreases ==
    /\ \A p \in 1 .. Len(trace) :
          trace[p].ev = "sleep" => trace[p].secs = backoff * RequestsUpTo(trace, p)
    /\ \A j \in 1 .. (Len(SleepsOf(trace)) - 1) :
          SleepsOf(trace)[j + 1].secs > SleepsOf(trace)[j].secs
    /\ Len(SleepsOf(trace)) > 0 => SleepsOf(trace)[1].secs = backoff

\* the detail GET of the second term of a batch: a 429 and then a failure
C9_Witness ==
    /\ Batch
    /\ idx = 2
    /\ pc = "artist"
    /\ Len(SleepsOf(trace)) = 2
    /\ IsRateLimit(trace[1].resp)
    /\ trace[3].resp = NetworkError
    /\ SleepsOf(trace)[1].secs = 8
    /\ SleepsOf(trace)[2].secs = 16

\* C10 as stated: once a GET is over, every wait it made was followed by a
\* further attempt, so none follows the last attempt of the budget.
C10_NoWaitAfterLastAttempt ==
    get_out # Unset =>
        \A p \in 1 .. Len(trace) :
            trace[p].ev = "sleep" => (p < Len(trace) /\ trace[p + 1].ev = "request")

====
